---- MODULE Spec2Model ----
(***************************************************************************)
(* A model of displayinterface.py: the Hyprland backend (IPC transport,    *)
(* monitor-list parsing, cursor-text parsing, layout -> physical           *)
(* conversion, the cached screen info), the backend selector and           *)
(* maybe_update_screen_info.                                               *)
(*                                                                         *)
(* Representation                                                          *)
(*  - a Python str is the sequence of its code points, a bytes object the  *)
(*    sequence of its bytes (0..255);                                      *)
(*  - a Python int is its sign and the limbs of its magnitude (PyInt(n) is *)
(*    the int object of the number n), so that its size has no limit;      *)
(*  - a float scale is the integer number of 1/ScaleDen units (ScaleDen is *)
(*    a power of two, so every such scale is exact in binary floating      *)
(*    point); a float computed from it has a mantissa of MantissaBits bits *)
(*    and is rounded as the IEEE 754 double of the interpreter is;         *)
(*  - an exception is the name of its Python class in the field outcome,   *)
(*    "ok" is a normal return;                                             *)
(*  - a monitor (a JSON object) is a record whose DOMAIN is its key set.   *)
(***************************************************************************)
EXTENDS Integers, Sequences, FiniteSets, TLC

VARIABLES
    displays,      \* the display objects that exist, in order of creation
    history,       \* per display: what its constructor fetched, whether a refresh ran
    open_sockets,  \* the sockets that are open between two operations
    last,          \* the operation that ran last: its inputs, outcome and result
    inp            \* the argument of a direct call of a pure function

vars == <<displays, history, open_sockets, last, inp>>

(***************************************************************************)
(* Bounds of the model                                                     *)
(***************************************************************************)
MaxDisplays == 2
MaxMonitors == 2
MaxFields == 3
MaxCoord == 4

(***************************************************************************)
(* Program constants                                                       *)
(***************************************************************************)
RecvBufSize == 1024
CursorBufferSize == 512
MonitorsBufferSize == 4096

\* int() refuses a text of more decimal digits than sys.get_int_max_str_digits(),
\* 4300 unless the interpreter was started with another limit.
MaxStrDigits == 4300

\* A float is a double: DBL_MANT_DIG bits of mantissa, and finite below
\* 2^DBL_MAX_EXP.
MantissaBits == 53
MaxExponent == 1024

\* Fixed-point resolution of a float scale: quarters.
ScaleBits == 2
ScaleDen == 2^ScaleBits

\* The bits of one limb of an int object.
LimbBits == 24
Base == 2^LimbBits

Min(a, b) == IF a <= b THEN a ELSE b

Abs(n) == IF n < 0 THEN 0 - n ELSE n

RECURSIVE SeqsUpTo(_, _)
SeqsUpTo(S, n) ==
    IF n = 0 THEN {<<>>}
    ELSE LET shorter == SeqsUpTo(S, n - 1)
         IN  shorter \cup {Append(s, e) : s \in {t \in shorter : Len(t) = n - 1}, e \in S}

(***************************************************************************)
(* Characters                                                              *)
(***************************************************************************)
Comma == 44
Space == 32
PlusSign == 43
MinusSign == 45
Underscore == 95

\* n spaces
Spaces(n) == [i \in 1..n |-> Space]

\* The characters str.strip() removes, those with str.isspace(): \t \n \v \f \r,
\* U+001C..U+001F, the space, U+0085, U+00A0, U+1680, U+2000..U+200A, U+2028,
\* U+2029, U+202F, U+205F and U+3000.
Whitespace ==
    (9..13) \cup (28..32) \cup {133, 160, 5760} \cup (8192..8202)
        \cup {8232, 8233, 8239, 8287, 12288}

\* The digits 0 of the decimal digits (category Nd) that Unicode 15.0 added and
\* that the interpreters able to import the module (Python 3.12 and later, for
\* typing.override) therefore know: Kawi and Nag Mundari.
DigitZerosUnicode15 == {73552, 124144}

\* The digit 0 of every run of decimal digits of Unicode: each run is ten
\* consecutive code points, with the values 0 to 9 in order.
DigitZeros ==
    {48, 1632, 1776, 1984, 2406, 2534, 2662, 2790, 2918, 3046, 3174, 3302, 3430, 3558,
     3664, 3792, 3872, 4160, 4240, 6112, 6160, 6470, 6608, 6784, 6800, 6992, 7088, 7232,
     7248, 42528, 43216, 43264, 43472, 43504, 43600, 44016, 65296, 66720, 68912, 69734,
     69872, 69942, 70096, 70384, 70736, 70864, 71248, 71360, 71472, 71904, 72016, 72784,
     73040, 73120, 92768, 92864, 93008, 120782, 120792, 120802, 120812, 120822, 123200,
     123632, 125264, 130032} \cup DigitZerosUnicode15

\* The characters int() reads as a decimal digit.
Digits == UNION {z..(z + 9) : z \in DigitZeros}

DigitVal(c) == c - (CHOOSE z \in DigitZeros : z <= c /\ c <= z + 9)

(***************************************************************************)
(* string_to_point                                                         *)
(***************************************************************************)
\* The places of s, in order.
Indices(s) == [i \in 1..Len(s) |-> i]

\* str.split(sep): the fields between ALL occurrences of sep (maxsplit is not given).
split(s, sep) ==
    LET IsSep(i) == s[i] = sep
        seps == SelectSeq(Indices(s), IsSep)
    IN  [j \in 1..(Len(seps) + 1) |->
            SubSeq(s, IF j = 1 THEN 1 ELSE seps[j - 1] + 1,
                      IF j = Len(seps) + 1 THEN Len(s) ELSE seps[j] - 1)]

\* str.split(sep, 1): at most one split, at the first occurrence of sep.
SplitFirstOnly(s, sep) ==
    IF \E i \in 1..Len(s) : s[i] = sep
    THEN LET i == CHOOSE k \in 1..Len(s) : s[k] = sep /\ \A j \in 1..(k - 1) : s[j] # sep
         IN  <<SubSeq(s, 1, i - 1), SubSeq(s, i + 1, Len(s))>>
    ELSE <<s>>

\* str.strip(): leading and trailing whitespace removed.
lstrip(s) ==
    IF \A i \in 1..Len(s) : s[i] \in Whitespace THEN <<>>
    ELSE SubSeq(s, CHOOSE i \in 1..Len(s) :
                       s[i] \notin Whitespace /\ \A j \in 1..(i - 1) : s[j] \in Whitespace,
                Len(s))

rstrip(s) ==
    IF \A i \in 1..Len(s) : s[i] \in Whitespace THEN <<>>
    ELSE SubSeq(s, 1, CHOOSE i \in 1..Len(s) :
                          s[i] \notin Whitespace
                              /\ \A j \in (i + 1)..Len(s) : s[j] \in Whitespace)

strip(s) == rstrip(lstrip(s))

\* The digits of an int literal after its sign: decimal digits of any script,
\* single underscores between them, at most MaxStrDigits digits.
IsDigitString(d) ==
    /\ d # <<>>
    /\ \A i \in 1..Len(d) : d[i] \in Digits \cup {Underscore}
    /\ d[1] \in Digits
    /\ d[Len(d)] \in Digits
    /\ \A i \in 1..(Len(d) - 1) : ~(d[i] = Underscore /\ d[i + 1] = Underscore)
    /\ Cardinality({i \in 1..Len(d) : d[i] \in Digits}) <= MaxStrDigits

(***************************************************************************)
(* int objects: [neg, mag], mag the limbs of the magnitude in base Base,   *)
(* the least significant first and the last one not 0 (0 has no limb and   *)
(* is not negative).                                                       *)
(***************************************************************************)
\* The limbs m without the zeros at their end.
Normalize(m) ==
    IF \A i \in 1..Len(m) : m[i] = 0 THEN <<>>
    ELSE SubSeq(m, 1, CHOOSE i \in 1..Len(m) :
                          m[i] # 0 /\ \A j \in (i + 1)..Len(m) : m[j] = 0)

IntObject(neg, mag) == [neg |-> neg /\ Normalize(mag) # <<>>, mag |-> Normalize(mag)]

\* The int object of the number n, and the number of an int object of one limb.
PyInt(n) == IntObject(n < 0, <<Abs(n) % Base, Abs(n) \div Base>>)
IsSmall(x) == Len(x.mag) <= 1
Small(x) ==
    IF x.mag = <<>> THEN 0 ELSE IF x.neg THEN 0 - x.mag[1] ELSE x.mag[1]

\* Limbs lo..hi of m * k + carry: the limbs of the result and the carry out of them.
RECURSIVE MulAddRange(_, _, _, _, _)
MulAddRange(m, k, lo, hi, carry) ==
    IF lo = hi
    THEN [limbs |-> <<(m[lo] * k + carry) % Base>>, carry |-> (m[lo] * k + carry) \div Base]
    ELSE LET left == MulAddRange(m, k, lo, (lo + hi) \div 2, carry)
             right == MulAddRange(m, k, (lo + hi) \div 2 + 1, hi, left.carry)
         IN  [limbs |-> left.limbs \o right.limbs, carry |-> right.carry]

\* m * k + c, for 0 <= k and 0 <= c below 2^(31 - LimbBits).
MulAdd(m, k, c) ==
    IF m = <<>> THEN Normalize(<<c>>)
    ELSE LET r == MulAddRange(m, k, 1, Len(m), c)
         IN  Normalize(Append(r.limbs, r.carry))

\* The number of bits of m, bit i of m (bit 0 is the lowest), m without its s
\* lowest bits, m with s zero bits below it.
BitLength(m) ==
    IF m = <<>> THEN 0
    ELSE (Len(m) - 1) * LimbBits
            + (CHOOSE b \in 1..LimbBits : 2^(b - 1) <= m[Len(m)] /\ m[Len(m)] < 2^b)

Bit(m, i) ==
    IF i \div LimbBits + 1 > Len(m) THEN 0
    ELSE (m[i \div LimbBits + 1] \div 2^(i % LimbBits)) % 2

ShiftRight(m, s) ==
    IF Len(m) <= s \div LimbBits THEN <<>>
    ELSE Normalize([j \in 1..(Len(m) - s \div LimbBits) |->
            (m[j + s \div LimbBits] \div 2^(s % LimbBits))
              + (IF j + s \div LimbBits < Len(m)
                 THEN (m[j + s \div LimbBits + 1] % 2^(s % LimbBits))
                          * 2^(LimbBits - (s % LimbBits))
                 ELSE 0)])

ShiftLeft(m, s) ==
    Normalize([j \in 1..(Len(m) + s \div LimbBits + 1) |->
        (IF 1 <= j - s \div LimbBits /\ j - s \div LimbBits <= Len(m)
         THEN (m[j - s \div LimbBits] % 2^(LimbBits - (s % LimbBits))) * 2^(s % LimbBits)
         ELSE 0)
          + (IF 2 <= j - s \div LimbBits /\ j - s \div LimbBits <= Len(m) + 1
             THEN m[j - s \div LimbBits - 1] \div 2^(LimbBits - (s % LimbBits))
             ELSE 0)])

\* The value of the digits lo..hi of d read after the value acc of the digits
\* before them (an underscore has no value). The first half is evaluated before
\* the second half is entered.
RECURSIVE DigitsValue(_, _, _, _)
DigitsValue(d, lo, hi, acc) ==
    IF lo > hi THEN acc
    ELSE IF lo = hi
    THEN IF d[lo] = Underscore THEN acc ELSE MulAdd(acc, 10, DigitVal(d[lo]))
    ELSE CHOOSE v \in {DigitsValue(d, (lo + hi) \div 2 + 1, hi, first) :
                           first \in {DigitsValue(d, lo, (lo + hi) \div 2, acc)}} : TRUE

HasSign(t) == t # <<>> /\ Head(t) \in {PlusSign, MinusSign}
Unsigned(t) == IF HasSign(t) THEN Tail(t) ELSE t

\* int(text) succeeds: optional surrounding whitespace, optional sign, digits.
IsIntText(text) == IsDigitString(Unsigned(strip(text)))

\* int(text), where it succeeds.
IntOfText(text) ==
    IntObject(HasSign(strip(text)) /\ Head(strip(text)) = MinusSign,
              DigitsValue(Unsigned(strip(text)), 1, Len(Unsigned(strip(text))), <<>>))

\* The mutant of string_to_point that splits at the first comma only.
string_to_point_first_comma(pos_string) ==
    LET coords == [i \in 1..Len(SplitFirstOnly(pos_string, Comma)) |->
                       strip(SplitFirstOnly(pos_string, Comma)[i])]
    IN  IF ~IsIntText(coords[1]) THEN [outcome |-> "ValueError"]
        ELSE IF Len(coords) < 2 THEN [outcome |-> "IndexError"]
        ELSE IF ~IsIntText(coords[2]) THEN [outcome |-> "ValueError"]
        ELSE [outcome |-> "ok", value |-> <<IntOfText(coords[1]), IntOfText(coords[2])>>]

\* HyprlandInterface.string_to_point: int(coords[0]) is evaluated before coords[1].
string_to_point(pos_string) ==
    LET fields == split(pos_string, Comma)
        coords == [i \in 1..Len(fields) |-> strip(fields[i])]
    IN  IF ~IsIntText(coords[1]) THEN [outcome |-> "ValueError"]
        ELSE IF Len(coords) < 2 THEN [outcome |-> "IndexError"]
        ELSE IF ~IsIntText(coords[2]) THEN [outcome |-> "ValueError"]
        ELSE [outcome |-> "ok", value |-> <<IntOfText(coords[1]), IntOfText(coords[2])>>]

(***************************************************************************)
(* convert_to_physical_coords                                              *)
(***************************************************************************)
DisplayInfo(width, height, scale) == [width |-> width, height |-> height, scale |-> scale]

\* m rounded to MantissaBits significant bits, a tie to the even mantissa.
RoundToMantissa(m) ==
    LET s == BitLength(m) - MantissaBits
        up == /\ Bit(m, s - 1) = 1
              /\ Bit(m, s) = 1 \/ \E i \in 0..(s - 2) : Bit(m, i) = 1
    IN  IF s <= 0 THEN m
        ELSE ShiftLeft(IF up THEN MulAdd(ShiftRight(m, s), 1, 1) ELSE ShiftRight(m, s), s)

\* A float is [neg, mag]: the number mag / ScaleDen with the sign neg.
\* The float of an int whose magnitude rounds to m: OverflowError when it is
\* no finite float.
FloatOrOverflow(neg, m) ==
    IF BitLength(m) > MaxExponent THEN [outcome |-> "OverflowError"]
    ELSE [outcome |-> "ok", neg |-> neg, mag |-> ShiftLeft(m, ScaleBits)]

\* The conversion of the int n that int * float begins with.
int_to_float(n) == FloatOrOverflow(n.neg, RoundToMantissa(n.mag))

\* x * scale_factor for the float x of an int and a scale of scale_factor /
\* ScaleDen: the exact product, a multiple of 1 / ScaleDen, rounded to a float
\* (to inf, see IsInf, beyond the finite ones).
float_mul(x, scale_factor) ==
    [outcome |-> "ok",
     neg |-> x.neg # (scale_factor < 0),
     mag |-> ShiftRight(RoundToMantissa(MulAdd(x.mag, Abs(scale_factor), 0)), ScaleBits)]

\* The float is inf or -inf.
IsInf(x) == BitLength(x.mag) > MaxExponent + ScaleBits

\* The part of the float x after the point, in units of 1 / ScaleDen.
Fraction(x) == IF x.mag = <<>> THEN 0 ELSE x.mag[1] % ScaleDen

\* The mutant of round_float that rounds a tie up.
round_half_up(x) ==
    IF IsInf(x) THEN [outcome |-> "OverflowError"]
    ELSE [outcome |-> "ok",
          value |-> IntObject(x.neg,
                        IF 2 * Fraction(x) > ScaleDen
                              \/ (2 * Fraction(x) = ScaleDen /\ ~x.neg)
                        THEN MulAdd(ShiftRight(x.mag, ScaleBits), 1, 1)
                        ELSE ShiftRight(x.mag, ScaleBits))]

\* round(x) of the float x: the nearest integer, a tie to the even one;
\* OverflowError for inf.
round_float(x) ==
    IF IsInf(x) THEN [outcome |-> "OverflowError"]
    ELSE [outcome |-> "ok",
          value |-> IntObject(x.neg,
                        IF 2 * Fraction(x) > ScaleDen
                              \/ (2 * Fraction(x) = ScaleDen /\ Bit(x.mag, ScaleBits) = 1)
                        THEN MulAdd(ShiftRight(x.mag, ScaleBits), 1, 1)
                        ELSE ShiftRight(x.mag, ScaleBits))]

\* round(x * scale_factor) for the outcome x of the conversion of the int.
RoundedProduct(x, scale_factor) ==
    IF x.outcome # "ok" THEN x ELSE round_float(float_mul(x, scale_factor))

\* int(round(coord * scale_factor)): one axis of line 94.
physical_coord(coord, scale_factor) == RoundedProduct(int_to_float(coord), scale_factor)

\* The tuple that both axes make: the first exception is the outcome.
PairOf(x, y) ==
    IF x.outcome # "ok" THEN [outcome |-> x.outcome]
    ELSE IF y.outcome # "ok" THEN [outcome |-> y.outcome]
    ELSE [outcome |-> "ok", value |-> <<x.value, y.value>>]

\* HyprlandInterface.convert_to_physical_coords
convert_to_physical_coords(global_coords, display_info) ==
    PairOf(physical_coord(global_coords[1], display_info.scale),
           physical_coord(global_coords[2], display_info.scale))

(***************************************************************************)
(* The compositor's side of one exchange                                   *)
(*   link    : what the connection does                                    *)
(*   reply   : the bytes the compositor answers with                       *)
(*   arrived : how many of them are there to read when recv runs (the      *)
(*             compositor may write its reply in pieces; 0: it closed the  *)
(*             connection without writing)                                 *)
(***************************************************************************)
Links == {"up", "no_socket", "send_fails", "recv_fails"}

MonA == [id |-> 0, width |-> 1920, height |-> 1080, scale |-> 4]
MonB == [id |-> 0, width |-> 2560, height |-> 1440, scale |-> 6]
MonC == [id |-> 1, width |-> 1280, height |-> 720, scale |-> 8]
MonNoId == [width |-> 1280, height |-> 720, scale |-> 4]
MonNoScale == [id |-> 0, width |-> 1920, height |-> 1080]
Monitors == {MonA, MonB, MonC, MonNoId, MonNoScale}

\* A reply to j/monitors.
\*   json = TRUE : a JSON document of doc_bytes bytes, the array of the objects
\*                 `monitors`, followed by pad bytes of whitespace. No shorter
\*                 prefix of an array document is a JSON document. The document
\*                 is ASCII, but for one two-byte character (in a monitor's
\*                 description) at bytes wide_at and wide_at + 1 when wide_at > 0.
\*   json = FALSE: doc_bytes bytes of ASCII text no prefix of which is a JSON
\*                 document ("unknown request"), followed by pad bytes of whitespace.
MonitorReply(json, monitors, doc_bytes, pad, wide_at) ==
    [json |-> json, monitors |-> monitors, doc_bytes |-> doc_bytes, pad |-> pad,
     wide_at |-> wide_at]

\* A reply to /cursorpos: the bytes head, then pad bytes 0x20, then the bytes tail.
CursorReply(head, pad, tail) == [head |-> head, pad |-> pad, tail |-> tail]

IsMonitorReply(reply) == "monitors" \in DOMAIN reply

\* len(reply)
ReplyLen(reply) ==
    IF IsMonitorReply(reply) THEN reply.doc_bytes + reply.pad
    ELSE Len(reply.head) + reply.pad + Len(reply.tail)

(***************************************************************************)
(* bytes.decode(): UTF-8, errors = "strict"                                *)
(***************************************************************************)
Continuation(b) == 128 <= b /\ b <= 191

\* The length of the character that begins with byte b; 0 when none does
\* (a continuation byte, 0xC0, 0xC1, 0xF5..0xFF).
CharLen(b) ==
    IF b < 128 THEN 1
    ELSE IF 194 <= b /\ b <= 223 THEN 2
    ELSE IF 224 <= b /\ b <= 239 THEN 3
    ELSE IF 240 <= b /\ b <= 244 THEN 4
    ELSE 0

\* The second byte of a character: no overlong form, no surrogate, nothing
\* beyond U+10FFFF.
SecondOk(b1, b2) ==
    CASE b1 = 224 -> 160 <= b2 /\ b2 <= 191
      [] b1 = 237 -> 128 <= b2 /\ b2 <= 159
      [] b1 = 240 -> 144 <= b2 /\ b2 <= 191
      [] b1 = 244 -> 128 <= b2 /\ b2 <= 143
      [] OTHER -> Continuation(b2)

\* The n bytes from place i on are one character.
WellFormed(b, i, n) ==
    /\ n > 0
    /\ i + n - 1 <= Len(b)
    /\ n >= 2 => SecondOk(b[i], b[i + 1])
    /\ \A k \in 2..(n - 1) : Continuation(b[i + k])

CodePoint(b, i, n) ==
    CASE n = 1 -> b[i]
      [] n = 2 -> (b[i] - 192) * 64 + (b[i + 1] - 128)
      [] n = 3 -> (b[i] - 224) * 4096 + (b[i + 1] - 128) * 64 + (b[i + 2] - 128)
      [] n = 4 -> (b[i] - 240) * 262144 + (b[i + 1] - 128) * 4096
                      + (b[i + 2] - 128) * 64 + (b[i + 3] - 128)

\* bytes.decode(): the characters begin at the bytes that are no continuation
\* bytes; b is UTF-8 when each of them begins a well-formed character that ends
\* where the next one begins, the first at byte 1, the last at the last byte.
utf8_decode(b) ==
    LET Begins(i) == ~Continuation(b[i])
        at == SelectSeq(Indices(b), Begins)
        ok == /\ b # <<>> => at # <<>> /\ at[1] = 1
              /\ \A j \in 1..Len(at) :
                    /\ WellFormed(b, at[j], CharLen(b[at[j]]))
                    /\ at[j] + CharLen(b[at[j]])
                          = IF j < Len(at) THEN at[j + 1] ELSE Len(b) + 1
    IN  [ok |-> ok,
         text |-> IF ok THEN [j \in 1..Len(at) |-> CodePoint(b, at[j], CharLen(b[at[j]]))]
                  ELSE <<>>]

\* The first n bytes of a cursor reply.
FirstBytes(reply, n) ==
    LET h == Min(n, Len(reply.head))
        p == Min(n - h, reply.pad)
    IN  CursorReply(SubSeq(reply.head, 1, h), p, SubSeq(reply.tail, 1, n - h - p))

\* data.decode() of the bytes of a cursor reply: a run of spaces stands between
\* whole characters, so head and tail are decoded each by itself.
decode_bytes(data) ==
    IF data.pad = 0 THEN utf8_decode(data.head \o data.tail)
    ELSE LET h == utf8_decode(data.head)
             t == utf8_decode(data.tail)
         IN  IF h.ok /\ t.ok
             THEN [ok |-> TRUE, text |-> h.text \o Spaces(data.pad) \o t.text]
             ELSE [ok |-> FALSE, text |-> <<>>]

\* data.decode(), data the first n bytes of reply. Of a monitor reply the str is
\* kept as what json.loads makes of it: document says that it is a JSON document.
decode(reply, n) ==
    IF IsMonitorReply(reply)
    THEN [ok |-> ~(reply.wide_at > 0 /\ n = reply.wide_at),
          document |-> reply.json /\ n >= reply.doc_bytes,
          monitors |-> reply.monitors]
    ELSE decode_bytes(FirstBytes(reply, n))

(***************************************************************************)
(* __send_command                                                          *)
(***************************************************************************)
\* socket.socket(): a socket object that is none of the open ones.
new_socket(sockets) ==
    CHOOSE n \in 1..(Cardinality(sockets) + 1) :
        n \notin sockets /\ \A k \in 1..(n - 1) : k \in sockets

\* The mutant of close_on_exit that closes only after a normal return.
close_on_return_only(sockets, sock, outcome) ==
    IF outcome = "ok" THEN sockets \ {sock} ELSE sockets

\* The with statement's exit: the socket is closed on a return and on an exception.
close_on_exit(sockets, sock, outcome) == sockets \ {sock}

\* sock.recv(1024): the size asked for does not depend on buffer_size.
recv_size(buffer_size) == RecvBufSize

\* What link lets connect, sendall and recv do.
exchange_outcome(link) ==
    CASE link = "no_socket" -> "FileNotFoundError"
      [] link = "send_fails" -> "BrokenPipeError"
      [] link = "recv_fails" -> "ConnectionResetError"
      [] OTHER -> "ok"

\* The bytes that recv returned: those that have arrived, at most recv_size of them.
received_bytes(link, arrived, buffer_size) ==
    IF exchange_outcome(link) = "ok" THEN Min(arrived, recv_size(buffer_size)) ELSE 0

\* The exception of the exchange or of data.decode(), or "ok".
send_outcome(link, data) ==
    IF exchange_outcome(link) # "ok" THEN exchange_outcome(link)
    ELSE IF ~data.ok THEN "UnicodeDecodeError"
    ELSE "ok"

\* What a call of __send_command leaves: its outcome, the decoded data, and the
\* sockets that are open after the with statement.
Exchanged(outcome, data, received, command, sock, sockets) ==
    [outcome |-> outcome,
     data |-> data,
     received |-> received,
     command |-> command,
     socket |-> sock,
     sockets |-> close_on_exit(sockets \cup {sock}, sock, outcome)]

\* The exchange on the socket sock, data being what the received bytes decode to.
ExchangeOn(link, data, received, command, sock, sockets) ==
    Exchanged(send_outcome(link, data), data, received, command, sock, sockets)

\* The exchange in which recv returned the first received bytes of reply.
ExchangeOf(link, reply, received, command, sockets) ==
    ExchangeOn(link, decode(reply, received), received, command, new_socket(sockets), sockets)

\* HyprlandInterface.__send_command: the one recv returns the bytes that have
\* arrived, at most recv_size of them; data is what they decode to.
send_command(link, reply, arrived, command, buffer_size, sockets) ==
    ExchangeOf(link, reply, received_bytes(link, arrived, buffer_size), command, sockets)

(***************************************************************************)
(* get_screen_info                                                         *)
(***************************************************************************)
\* json.loads(monitors_json) succeeds: the text is a JSON document.
json_loads_ok(monitors_json) == monitors_json.document

IdIsZero(m) == "id" \in DOMAIN m /\ m.id = 0

\* The mutant of monitor_with_id_zero that takes the first of several matches.
monitor_first_match(monitors_parsed) ==
    LET monitors_id_zero == SelectSeq(monitors_parsed, IdIsZero)
    IN  IF Len(monitors_id_zero) = 0 THEN [outcome |-> "RuntimeError"]
        ELSE IF ~({"width", "height", "scale"} \subseteq DOMAIN monitors_id_zero[1])
        THEN [outcome |-> "KeyError"]
        ELSE [outcome |-> "ok",
              value |-> DisplayInfo(monitors_id_zero[1].width, monitors_id_zero[1].height,
                                    monitors_id_zero[1].scale)]

\* Lines 68-79: the filter on id == 0, the two raises, the DisplayInfo.
monitor_with_id_zero(monitors_parsed) ==
    LET monitors_id_zero == SelectSeq(monitors_parsed, IdIsZero)
        num_monitors == Len(monitors_id_zero)
    IN  IF num_monitors = 0 THEN [outcome |-> "RuntimeError"]
        ELSE IF num_monitors # 1 THEN [outcome |-> "ValueError"]
        ELSE IF ~({"width", "height", "scale"} \subseteq DOMAIN monitors_id_zero[1])
        THEN [outcome |-> "KeyError"]
        ELSE [outcome |-> "ok",
              value |-> DisplayInfo(monitors_id_zero[1].width, monitors_id_zero[1].height,
                                    monitors_id_zero[1].scale)]

\* None, and the value of a call that raised.
None == <<>>

\* The result of a method: outcome, the value returned (when ok), the object
\* afterwards, the sockets left open, the exchanges made and the bytes that the
\* recv of the exchange returned.
Result(outcome, value, self, r) ==
    [outcome |-> outcome, value |-> value, self |-> self, sockets |-> r.sockets,
     exchanges |-> 1, socket |-> r.socket, received |-> r.received]

\* The mutant of ScreenInfoResult that stores what it fetched in the cache.
ScreenInfoStored(self, r, m) ==
    IF r.outcome # "ok" THEN Result(r.outcome, None, self, r)
    ELSE IF ~json_loads_ok(r.data) THEN Result("JSONDecodeError", None, self, r)
    ELSE IF m.outcome # "ok" THEN Result(m.outcome, None, self, r)
    ELSE Result("ok", m.value, [cls |-> self.cls, screen_info |-> m.value], r)

\* Lines 64-79 after the exchange r, m being what lines 68-79 make of the parsed
\* monitors: the exception of the exchange, of json.loads or of the checks, or
\* the DisplayInfo. self is not assigned to.
ScreenInfoResult(self, r, m) ==
    IF r.outcome # "ok" THEN Result(r.outcome, None, self, r)
    ELSE IF ~json_loads_ok(r.data) THEN Result("JSONDecodeError", None, self, r)
    ELSE IF m.outcome # "ok" THEN Result(m.outcome, None, self, r)
    ELSE Result("ok", m.value, self, r)

\* The screen information of an exchange r.
ScreenInfoOf(self, r) == ScreenInfoResult(self, r, monitor_with_id_zero(r.data.monitors))

\* HyprlandInterface.get_screen_info
get_screen_info(self, link, reply, arrived, sockets) ==
    ScreenInfoOf(self, send_command(link, reply, arrived, "j/monitors", MonitorsBufferSize,
                                    sockets))

(***************************************************************************)
(* The classes                                                             *)
(***************************************************************************)
Bases(cls) ==
    IF cls = "HyprlandInterface"
    THEN {"HyprlandInterface", "DisplayInterface", "CachedScreenInfoMixin"}
    ELSE {"PyAutoGuiInterface", "DisplayInterface"}

isinstance(display, cls) == cls \in Bases(display.cls)

NoCache == DisplayInfo(0, 0, 0)

\* The mutant of hyprland_init that keeps the instance when the fetch fails.
hyprland_init_degraded(link, reply, arrived, sockets) ==
    LET self == [cls |-> "HyprlandInterface"]
        r == get_screen_info(self, link, reply, arrived, sockets)
    IN  IF r.outcome = "ok"
        THEN [r EXCEPT !.value = None,
                       !.self = [cls |-> self.cls, screen_info |-> r.value]]
        ELSE [r EXCEPT !.outcome = "ok", !.value = None,
                       !.self = [cls |-> self.cls, screen_info |-> NoCache]]

\* self.screen_info = <the value r of the call self.get_screen_info()>: the
\* assignment runs when the call returned, and the method then returns None.
AssignScreenInfo(r) ==
    IF r.outcome = "ok"
    THEN [r EXCEPT !.value = None,
                   !.self = [cls |-> r.self.cls, screen_info |-> r.value]]
    ELSE r

\* HyprlandInterface.__init__: it returns None; with outcome "ok", self is the
\* new instance; an exception leaves the caller without one.
hyprland_init(link, reply, arrived, sockets) ==
    AssignScreenInfo(get_screen_info([cls |-> "HyprlandInterface"], link, reply, arrived,
                                     sockets))

\* The mutant of update_stored_screen_info that empties the cache before it fetches.
update_clearing_first(self, link, reply, arrived, sockets) ==
    LET cleared == [self EXCEPT !.screen_info = NoCache]
        r == get_screen_info(cleared, link, reply, arrived, sockets)
    IN  IF r.outcome = "ok"
        THEN [r EXCEPT !.value = None,
                       !.self = [cls |-> r.self.cls, screen_info |-> r.value]]
        ELSE r

\* HyprlandInterface.update_stored_screen_info: the assignment runs after
\* get_screen_info has returned, and not when it raised; the method returns None.
update_stored_screen_info(self, link, reply, arrived, sockets) ==
    AssignScreenInfo(get_screen_info(self, link, reply, arrived, sockets))

\* Line 55: the point p that string_to_point made, converted with the cached info.
ConvertedPoint(p, screen_info) ==
    IF p.outcome # "ok" THEN p ELSE convert_to_physical_coords(p.value, screen_info)

\* Lines 54-55: the text is parsed and the point converted.
physical_position(pos_string, screen_info) ==
    ConvertedPoint(string_to_point(pos_string), screen_info)

\* The result of get_cursor_position after the exchange r: the position p, or
\* the exception of the exchange, of the parse or of the conversion.
PositionResult(self, r, p) ==
    IF r.outcome # "ok" THEN Result(r.outcome, None, self, r)
    ELSE IF p.outcome # "ok" THEN Result(p.outcome, None, self, r)
    ELSE Result("ok", p.value, self, r)

\* The str that __send_command returned (none when it raised).
TextOf(r) == IF r.outcome = "ok" THEN r.data.text ELSE <<>>

\* The position of an exchange r.
PositionOf(self, r) == PositionResult(self, r, physical_position(TextOf(r), self.screen_info))

\* HyprlandInterface.get_cursor_position
get_cursor_position(self, link, reply, arrived, sockets) ==
    PositionOf(self, send_command(link, reply, arrived, "/cursorpos", CursorBufferSize,
                                  sockets))

\* A call that makes no exchange.
NoExchange(outcome, value, self, sockets) ==
    [outcome |-> outcome, value |-> value, self |-> self, sockets |-> sockets,
     exchanges |-> 0, socket |-> 0, received |-> 0]

Refreshing(r, n) ==
    [outcome |-> r.outcome, value |-> r.value, self |-> r.self, sockets |-> r.sockets,
     exchanges |-> r.exchanges, socket |-> r.socket, received |-> r.received,
     refresh_calls |-> n]

\* The mutant of maybe_update_screen_info that calls the refresh on every display.
maybe_update_unchecked(display, link, reply, arrived, sockets) ==
    IF display.cls = "HyprlandInterface"
    THEN Refreshing(update_stored_screen_info(display, link, reply, arrived, sockets), 1)
    ELSE Refreshing(NoExchange("AttributeError", None, display, sockets), 1)

\* maybe_update_screen_info: it returns None.
maybe_update_screen_info(display, link, reply, arrived, sockets) ==
    IF isinstance(display, "CachedScreenInfoMixin")
    THEN Refreshing(update_stored_screen_info(display, link, reply, arrived, sockets), 1)
    ELSE Refreshing(NoExchange("ok", None, display, sockets), 0)

(***************************************************************************)
(* get_display_interface                                                   *)
(***************************************************************************)
Platforms == {"linux", "win32", "darwin", "freebsd"}
SessionTypes == {"x11", "wayland", "", "tty"}
Signatures == {"", "a1b2c3"}

\* The mutant of selected_backend that takes every Wayland session for Hyprland.
selected_backend_any_wayland(detected_platform, xdg_session_type, hyprland_instance_signature) ==
    IF detected_platform = "linux"
    THEN IF xdg_session_type = "x11" THEN "PyAutoGuiInterface"
         ELSE IF xdg_session_type = "wayland" THEN "HyprlandInterface"
         ELSE "NotImplementedError"
    ELSE IF detected_platform \in {"win32", "darwin"} THEN "PyAutoGuiInterface"
    ELSE "NotImplementedError"

\* The branches of get_display_interface: the class it constructs, or the
\* exception it raises.
selected_backend(detected_platform, xdg_session_type, hyprland_instance_signature) ==
    IF detected_platform = "linux"
    THEN IF xdg_session_type = "x11" THEN "PyAutoGuiInterface"
         ELSE IF xdg_session_type = "wayland"
         THEN IF hyprland_instance_signature # "" THEN "HyprlandInterface"
              ELSE "NotImplementedError"
         ELSE "NotImplementedError"
    ELSE IF detected_platform = "win32" THEN "PyAutoGuiInterface"
    ELSE IF detected_platform = "darwin" THEN "PyAutoGuiInterface"
    ELSE "NotImplementedError"

\* return HyprlandInterface(): the value returned is the instance the
\* constructor call r made.
ReturnInstance(r) == IF r.outcome = "ok" THEN [r EXCEPT !.value = r.self] ELSE r

\* get_display_interface: the selected constructor runs, its exception propagates.
get_display_interface(platform, session, signature, link, reply, arrived, sockets) ==
    IF selected_backend(platform, session, signature) = "HyprlandInterface"
    THEN ReturnInstance(hyprland_init(link, reply, arrived, sockets))
    ELSE IF selected_backend(platform, session, signature) = "PyAutoGuiInterface"
    THEN NoExchange("ok", [cls |-> "PyAutoGuiInterface"], [cls |-> "PyAutoGuiInterface"],
                    sockets)
    ELSE NoExchange("NotImplementedError", None, [cls |-> "none"], sockets)

(***************************************************************************)
(* The environments of one exchange                                        *)
(***************************************************************************)
Env(link, reply, arrived) == [link |-> link, reply |-> reply, arrived |-> arrived]

\* The whole reply is there when recv runs.
Whole(reply) == Env("up", reply, ReplyLen(reply))

NoMonitorReply == MonitorReply(FALSE, <<>>, 0, 0, 0)
NoCursorReply == CursorReply(<<>>, 0, <<>>)

\* The document sizes of the model: well inside recv's buffer, the buffer less
\* the newline that follows, the buffer, one byte more, the j/monitors budget.
DocSizes ==
    {RecvBufSize - CursorBufferSize, RecvBufSize - 1, RecvBufSize, RecvBufSize + 1,
     MonitorsBufferSize}

\* A JSON document of n bytes that lists the monitors l, and the newline after it.
Document(l, n) == MonitorReply(TRUE, l, n, 1, 0)

\* The replies to j/monitors that the state machine draws from: one monitor,
\* the id-0 monitor after another one, two id-0 monitors, and a document of the
\* j/monitors budget with its newline.
SampleMonitorReplies ==
    {Document(<<MonA>>, RecvBufSize - CursorBufferSize),
     Document(<<MonC, MonB>>, RecvBufSize - 1),
     Document(<<MonA, MonB>>, RecvBufSize - CursorBufferSize),
     Document(<<MonB>>, MonitorsBufferSize - 1)}

\* A reply that has arrived whole, the first ten bytes of a reply, and the
\* failures of the link.
MonitorEnvs ==
    {Whole(r) : r \in SampleMonitorReplies}
        \cup {Env("up", Document(<<MonA>>, RecvBufSize - CursorBufferSize), 10)}
        \cup {Env(l, NoMonitorReply, 0) : l \in Links \ {"up"}}

\* The replies to j/monitors of a single call: every list of at most MaxMonitors
\* monitors at every document size, with and without a newline after it; the
\* two-byte character before, across and after the end of recv's buffer; text
\* that is no JSON.
AllMonitorReplies ==
    {MonitorReply(TRUE, l, n, p, 0) :
        l \in SeqsUpTo(Monitors, MaxMonitors), n \in DocSizes, p \in {0, 1}}
        \cup {MonitorReply(TRUE, <<MonA>>, RecvBufSize + CursorBufferSize, 1, w) :
                w \in {RecvBufSize - 1, RecvBufSize, RecvBufSize + 1}}
        \cup {MonitorReply(FALSE, <<>>, n, 0, 0) : n \in DocSizes}

\* Each of them arrived whole; one of them with none, ten, all but one and all of
\* its document's bytes arrived; the failures of the link.
AllMonitorEnvs ==
    {Whole(r) : r \in AllMonitorReplies}
        \cup {Env("up", Document(<<MonA>>, RecvBufSize - CursorBufferSize), n) :
                n \in {0, 10, RecvBufSize - CursorBufferSize - 1,
                       RecvBufSize - CursorBufferSize}}
        \cup {Env(l, NoMonitorReply, 0) : l \in Links \ {"up"}}

\* "12, 34", "3, 3", "  -5 ,7", "12", "a,b", "1, 2, 3", "12, 34\r\n"
Text12c34 == <<49, 50, 44, 32, 51, 52>>
Text3c3 == <<51, 44, 32, 51>>
TextNeg5c7 == <<32, 32, 45, 53, 32, 44, 55>>
Text12 == <<49, 50>>
TextAcB == <<97, 44, 98>>
Text1c2c3 == <<49, 44, 32, 50, 44, 32, 51>>
Text12c34CrLf == <<49, 50, 44, 32, 51, 52, 13, 10>>

\* The UTF-8 bytes of "٣, ٤" (the Arabic-Indic digits 3 and 4), of "3,", an em
\* space and "4", and of "é".
Bytes3c4ArabicIndic == <<217, 163, 44, 32, 217, 164>>
Bytes3cEmSpace4 == <<51, 44, 226, 128, 131, 52>>
BytesEAcute == <<195, 169>>

\* "9007199254740993, 0": 2^53 + 1, which no float is.
TextBeyondMantissa ==
    <<57, 48, 48, 55, 49, 57, 57, 50, 53, 52, 55, 52, 48, 57, 57, 51, 44, 32, 48>>

\* "1", 400 zeros and ", 0"; "0, -" and 309 nines: beyond every finite float.
TextBeyondFloat == <<49>> \o [i \in 1..400 |-> 48] \o <<44, 32, 48>>
TextNinesBeyondFloat == <<48, 44, 32, 45>> \o [i \in 1..309 |-> 57]

\* "12, 34" and spaces after it, n bytes in all.
Padded(n) == CursorReply(Text12c34, n - Len(Text12c34), <<>>)

\* "12, 34", spaces and "é", the two bytes of "é" across the end of recv's buffer.
AcrossTheEnd == CursorReply(Text12c34, RecvBufSize - 1 - Len(Text12c34), BytesEAcute)

\* The replies to /cursorpos that the state machine draws from: "3, 3", "12",
\* "12, 34" with spaces up to one byte beyond the /cursorpos budget, and a
\* coordinate that no float is.
SampleCursorReplies ==
    {CursorReply(Text3c3, 0, <<>>), CursorReply(Text12, 0, <<>>),
     Padded(CursorBufferSize + 1), CursorReply(TextBeyondMantissa, 0, <<>>)}

\* A reply that has arrived whole, "12, 34" of which 5 bytes have arrived, "é" of
\* which one byte has arrived, and a connection that is reset.
CursorEnvs ==
    {Whole(r) : r \in SampleCursorReplies}
        \cup {Env("up", CursorReply(Text12c34, 0, <<>>), 5),
              Env("up", CursorReply(BytesEAcute, 0, <<>>), 1),
              Env("recv_fails", NoCursorReply, 0)}

\* The replies to /cursorpos of a single call: the texts above; "12, 34" with
\* spaces up to the /cursorpos budget, one byte beyond it, recv's buffer and one
\* byte beyond that; "1," and "2" with more spaces between them than recv's
\* buffer holds; bytes that are no UTF-8; coordinates that no float is.
AllCursorReplies ==
    {CursorReply(t, 0, <<>>) :
        t \in {Text12c34, Text3c3, TextNeg5c7, Text12, TextAcB, Text1c2c3, Text12c34CrLf,
               Bytes3c4ArabicIndic, Bytes3cEmSpace4, BytesEAcute, <<255>>, <<49, 44, 50, 195>>,
               TextBeyondMantissa, TextBeyondFloat, TextNinesBeyondFloat}}
        \cup {Padded(n) : n \in {CursorBufferSize, CursorBufferSize + 1, RecvBufSize,
                                 RecvBufSize + 1}}
        \cup {CursorReply(<<49, 44>>, RecvBufSize - 1, <<50>>), AcrossTheEnd}

\* Each of them arrived whole, "12, 34\r\n" and "٣, ٤" with none to six of their
\* bytes arrived, and the failures of the link.
AllCursorEnvs ==
    {Whole(r) : r \in AllCursorReplies}
        \cup {Env("up", CursorReply(t, 0, <<>>), n) :
                t \in {Text12c34CrLf, Bytes3c4ArabicIndic}, n \in 0..Len(Bytes3c4ArabicIndic)}
        \cup {Env(l, NoCursorReply, 0) : l \in Links \ {"up"}}

(***************************************************************************)
(* The state machine: one action per operation a caller can invoke         *)
(***************************************************************************)
Idle == [op |-> "none"]

NoEnv == Env("up", NoMonitorReply, 0)

\* What the compositor can do during a call that runs the code of class cls: only
\* HyprlandInterface talks to it.
ExchangesOf(cls) == IF cls = "HyprlandInterface" THEN MonitorEnvs ELSE {NoEnv}

\* What `last` records of a call: its inputs, its result, the displays before it.
Call(op, target, env, r, refresh_calls) ==
    [op |-> op, target |-> target, link |-> env.link, reply |-> env.reply,
     arrived |-> env.arrived,
     outcome |-> r.outcome, value |-> r.value, exchanges |-> r.exchanges,
     received |-> r.received, socket |-> r.socket, refresh_calls |-> refresh_calls,
     displays_before |-> displays]

\* What history records of a new display: the cache its constructor filled.
Created(r) ==
    [fetched_at_init |-> IF r.self.cls = "HyprlandInterface" THEN r.self.screen_info
                         ELSE None,
     refreshed |-> FALSE]

Init ==
    /\ displays = <<>>
    /\ history = <<>>
    /\ open_sockets = {}
    /\ last = Idle
    /\ inp = <<>>

\* display = HyprlandInterface()
Construct(env) ==
    /\ Len(displays) < MaxDisplays
    /\ UNCHANGED inp
    /\ LET r == hyprland_init(env.link, env.reply, env.arrived, open_sockets)
       IN  /\ displays' = IF r.outcome = "ok" THEN Append(displays, r.self) ELSE displays
           /\ history' = IF r.outcome = "ok" THEN Append(history, Created(r)) ELSE history
           /\ open_sockets' = r.sockets
           /\ last' = Call("__init__", 0, env, r, 0)

\* What `last` records of a call of get_display_interface: the call c and the
\* platform and environment variables it read.
SelectorCall(c, platform, session, signature) ==
    [op |-> c.op, target |-> c.target, link |-> c.link, reply |-> c.reply,
     arrived |-> c.arrived,
     outcome |-> c.outcome, value |-> c.value, exchanges |-> c.exchanges,
     received |-> c.received, socket |-> c.socket,
     refresh_calls |-> c.refresh_calls,
     displays_before |-> c.displays_before,
     platform |-> platform, session |-> session, signature |-> signature]

GetDisplayInterfaceWith(platform, session, signature, env) ==
    LET r == get_display_interface(platform, session, signature, env.link, env.reply,
                                   env.arrived, open_sockets)
    IN  /\ displays' = IF r.outcome = "ok" THEN Append(displays, r.value) ELSE displays
        /\ history' = IF r.outcome = "ok" THEN Append(history, Created(r)) ELSE history
        /\ open_sockets' = r.sockets
        /\ last' = SelectorCall(Call("get_display_interface", 0, env, r, 0),
                                platform, session, signature)

\* display = get_display_interface(), under a platform and an environment
GetDisplayInterface(platform, session, signature) ==
    /\ Len(displays) < MaxDisplays
    /\ UNCHANGED inp
    /\ \E env \in ExchangesOf(selected_backend(platform, session, signature)) :
           GetDisplayInterfaceWith(platform, session, signature, env)

\* displays[i].get_screen_info()
GetScreenInfo(i, env) ==
    /\ i \in 1..Len(displays)
    /\ displays[i].cls = "HyprlandInterface"
    /\ LET r == get_screen_info(displays[i], env.link, env.reply, env.arrived, open_sockets)
       IN  /\ displays' = [displays EXCEPT ![i] = r.self]
           /\ open_sockets' = r.sockets
           /\ last' = Call("get_screen_info", i, env, r, 0)
    /\ UNCHANGED <<history, inp>>

\* displays[i].update_stored_screen_info()
UpdateStoredScreenInfo(i, env) ==
    /\ i \in 1..Len(displays)
    /\ displays[i].cls = "HyprlandInterface"
    /\ LET r == update_stored_screen_info(displays[i], env.link, env.reply, env.arrived,
                                          open_sockets)
       IN  /\ displays' = [displays EXCEPT ![i] = r.self]
           /\ open_sockets' = r.sockets
           /\ last' = Call("update_stored_screen_info", i, env, r, 1)
    /\ history' = [history EXCEPT ![i].refreshed = TRUE]
    /\ UNCHANGED inp

MaybeUpdateWith(i, env) ==
    LET r == maybe_update_screen_info(displays[i], env.link, env.reply, env.arrived,
                                      open_sockets)
    IN  /\ displays' = [displays EXCEPT ![i] = r.self]
        /\ open_sockets' = r.sockets
        /\ last' = Call("maybe_update_screen_info", i, env, r, r.refresh_calls)
        /\ history' = [history EXCEPT ![i].refreshed = @ \/ r.refresh_calls > 0]

\* maybe_update_screen_info(displays[i])
MaybeUpdateScreenInfo(i) ==
    /\ i \in 1..Len(displays)
    /\ UNCHANGED inp
    /\ \E env \in ExchangesOf(displays[i].cls) : MaybeUpdateWith(i, env)

\* displays[i].get_cursor_position()
GetCursorPosition(i, env) ==
    /\ i \in 1..Len(displays)
    /\ displays[i].cls = "HyprlandInterface"
    /\ LET r == get_cursor_position(displays[i], env.link, env.reply, env.arrived,
                                    open_sockets)
       IN  /\ displays' = [displays EXCEPT ![i] = r.self]
           /\ open_sockets' = r.sockets
           /\ last' = Call("get_cursor_position", i, env, r, 0)
    /\ UNCHANGED <<history, inp>>

Next ==
    \/ \E env \in MonitorEnvs : Construct(env)
    \/ \E platform \in Platforms, session \in SessionTypes, signature \in Signatures :
           GetDisplayInterface(platform, session, signature)
    \/ \E i \in 1..MaxDisplays, env \in MonitorEnvs : GetScreenInfo(i, env)
    \/ \E i \in 1..MaxDisplays, env \in MonitorEnvs : UpdateStoredScreenInfo(i, env)
    \/ \E i \in 1..MaxDisplays : MaybeUpdateScreenInfo(i)
    \/ \E i \in 1..MaxDisplays, env \in CursorEnvs : GetCursorPosition(i, env)

Spec == Init /\ [][Next]_vars

(***************************************************************************)
(* Direct calls of the static methods and of get_screen_info, on inputs    *)
(* drawn by the initial state                                              *)
(***************************************************************************)
\* "12", " 34", "  -5 ", "7", "a", "b", "1", " 2", " 3", "", "+7", "1 2", "1_0",
\* "-", "3\r\n", the Arabic-Indic digit 3, an em space before the full-width
\* digits 1 and 2.
FieldSamples ==
    {<<49, 50>>, <<32, 51, 52>>, <<32, 32, 45, 53, 32>>, <<55>>, <<97>>, <<98>>,
     <<49>>, <<32, 50>>, <<32, 51>>, <<>>, <<43, 55>>, <<49, 32, 50>>,
     <<49, 95, 48>>, <<45>>, <<51, 13, 10>>, <<1635>>, <<8195, 65297, 65298>>}

RECURSIVE Join(_)
Join(fields) ==
    IF Len(fields) = 1 THEN fields[1]
    ELSE fields[1] \o <<Comma>> \o Join(Tail(fields))

\* One digit more than int() accepts.
TooManyDigits == [i \in 1..(MaxStrDigits + 1) |-> 49]

PointTexts ==
    {Join(fs) : fs \in SeqsUpTo(FieldSamples, MaxFields) \ {<<>>}}
        \cup {TooManyDigits \o <<Comma, 49>>, <<49, Comma>> \o TooManyDigits,
              TextBeyondMantissa, TextBeyondFloat, TextNinesBeyondFloat}

\* 2^n, and the int x + k for an x that is not negative and a small k.
Pow2(n) == IntObject(FALSE, ShiftLeft(<<1>>, n))
Plus(x, k) == IntObject(FALSE, MulAdd(x.mag, 1, k))

\* Coordinates beyond the mantissa of a float (2^53 + 1, 2^53 + 3), the greatest
\* power of two that is a finite float, and the least that is none.
WideCoords ==
    {Plus(Pow2(MantissaBits), 1), Plus(Pow2(MantissaBits), 3), Pow2(MaxExponent - 1),
     Pow2(MaxExponent)}

Coords == {PyInt(n) : n \in (-MaxCoord..MaxCoord) \cup {100}} \cup WideCoords

ConvertInfos ==
    {DisplayInfo(1920, 1080, 4), DisplayInfo(3200, 1800, 8), DisplayInfo(2560, 1440, 6),
     DisplayInfo(2560, 1600, 5)}

ConvertInputs ==
    {[global_coords |-> <<x, y>>, display_info |-> d] :
        x \in Coords, y \in Coords, d \in ConvertInfos}

\* What `last` records of a direct call: the value returned or the exception.
Outcome(op, r) ==
    [op |-> op, outcome |-> r.outcome, value |-> IF r.outcome = "ok" THEN r.value ELSE None]

InitParse ==
    /\ displays = <<>>
    /\ history = <<>>
    /\ open_sockets = {}
    /\ last = Idle
    /\ inp \in PointTexts

\* HyprlandInterface.string_to_point(inp)
CallStringToPoint ==
    /\ last = Idle
    /\ last' = Outcome("string_to_point", string_to_point(inp))
    /\ UNCHANGED <<displays, history, open_sockets, inp>>

NextParse == CallStringToPoint

SpecParse == InitParse /\ [][NextParse]_vars

InitConvert ==
    /\ displays = <<>>
    /\ history = <<>>
    /\ open_sockets = {}
    /\ last = Idle
    /\ inp \in ConvertInputs

\* HyprlandInterface.convert_to_physical_coords(inp.global_coords, inp.display_info)
CallConvertToPhysicalCoords ==
    /\ last = Idle
    /\ last' = Outcome("convert_to_physical_coords",
                        convert_to_physical_coords(inp.global_coords, inp.display_info))
    /\ UNCHANGED <<displays, history, open_sockets, inp>>

NextConvert == CallConvertToPhysicalCoords

SpecConvert == InitConvert /\ [][NextConvert]_vars

\* One HyprlandInterface whose constructor fetched the 1280x720 screen at scale 2.0,
\* and what the compositor does at its next exchange.
InitExchange ==
    /\ displays = <<[cls |-> "HyprlandInterface", screen_info |-> DisplayInfo(1280, 720, 8)]>>
    /\ history = <<[fetched_at_init |-> DisplayInfo(1280, 720, 8), refreshed |-> FALSE]>>
    /\ open_sockets = {}
    /\ last = Idle
    /\ inp \in AllMonitorEnvs \cup AllCursorEnvs

\* displays[1].get_screen_info() while the compositor answers inp
CallGetScreenInfo == last = Idle /\ IsMonitorReply(inp.reply) /\ GetScreenInfo(1, inp)

\* displays[1].get_cursor_position() while the compositor answers inp
CallGetCursorPosition == last = Idle /\ ~IsMonitorReply(inp.reply) /\ GetCursorPosition(1, inp)

NextExchange == CallGetScreenInfo \/ CallGetCursorPosition

SpecExchange == InitExchange /\ [][NextExchange]_vars

(***************************************************************************)
(* Properties                                                              *)
(***************************************************************************)
IsHyprland(d) == d.cls = "HyprlandInterface"

\* The places of the monitors with id 0 in a parsed monitor list.
ZeroIds(ms) == {k \in 1..Len(ms) : "id" \in DOMAIN ms[k] /\ ms[k].id = 0}

TheZeroId(ms) == ms[CHOOSE k \in ZeroIds(ms) : TRUE]

Complete(m) == {"width", "height", "scale"} \subseteq DOMAIN m

InfoOf(m) == DisplayInfo(m.width, m.height, m.scale)

\* recv returned every byte of the compositor's JSON document: what is parsed is
\* the compositor's monitor list.
ReceivedDocument(call) ==
    call.link = "up" /\ call.reply.json /\ call.received >= call.reply.doc_bytes

\* The str that the call's exchange returned to its caller.
ReceivedText(call) == decode(call.reply, call.received).text

\* The whole reply was there when recv ran.
ArrivedWhole(call) == call.link = "up" /\ call.arrived = ReplyLen(call.reply)

\* The DisplayInfo values a fetch can return from the monitors of the model.
FetchableInfos == {InfoOf(m) : m \in {MonA, MonB, MonC}}

Refreshes(call) ==
    \/ call.op = "update_stored_screen_info"
    \/ call.op = "maybe_update_screen_info" /\ call.refresh_calls = 1

\* C1: while update_stored_screen_info has not been invoked on a display (directly
\* or through maybe_update_screen_info), every get_cursor_position result on it is
\* the conversion of the point it received with the scale its constructor fetched,
\* and get_cursor_position and get_screen_info leave every display as it was.
C1_StaleCacheUsed ==
    /\ (last.op = "get_cursor_position" /\ last.outcome = "ok"
            /\ ~history[last.target].refreshed)
        => last.value
             = convert_to_physical_coords(string_to_point(ReceivedText(last)).value,
                                          history[last.target].fetched_at_init).value
    /\ last.op \in {"get_cursor_position", "get_screen_info"}
        => displays = last.displays_before

\* C1 witness: display 1 was constructed at one scale, display 2 was constructed
\* later and fetched another scale (the compositor's answer has changed), neither
\* was refreshed, and a cursor query on display 1 still used the first scale.
C1_Witness ==
    /\ Len(displays) = 2
    /\ IsHyprland(displays[1]) /\ IsHyprland(displays[2])
    /\ ~history[1].refreshed /\ ~history[2].refreshed
    /\ history[2].fetched_at_init.scale # history[1].fetched_at_init.scale
    /\ last.op = "get_cursor_position" /\ last.target = 1 /\ last.outcome = "ok"
    /\ last.reply = CursorReply(Text3c3, 0, <<>>) /\ ArrivedWhole(last)
    /\ last.value
         = convert_to_physical_coords(<<PyInt(3), PyInt(3)>>, history[1].fetched_at_init).value
    /\ last.value
         # convert_to_physical_coords(<<PyInt(3), PyInt(3)>>, history[2].fetched_at_init).value

\* C2: a get_screen_info whose recv returned the whole monitor list returns the
\* DisplayInfo of the one monitor with id 0 wherever it stands in the list, raises
\* RuntimeError when no monitor has id 0 and raises ValueError, a different
\* class, when two or more have; it never returns the first of several.
C2_MonitorIdZero ==
    (last.op = "get_screen_info" /\ ReceivedDocument(last))
        => LET ms == last.reply.monitors
               n == Cardinality(ZeroIds(ms))
           IN  /\ n = 0 => last.outcome = "RuntimeError"
               /\ n >= 2 => last.outcome = "ValueError"
               /\ (n = 1 /\ Complete(TheZeroId(ms)))
                    => /\ last.outcome = "ok"
                       /\ last.value = InfoOf(TheZeroId(ms))

\* C2 witness: the id-0 monitor stands second, after a monitor with id 1, and is returned.
C2_Witness ==
    /\ last.op = "get_screen_info" /\ ReceivedDocument(last)
    /\ last.reply.monitors = <<MonC, MonB>>
    /\ last.outcome = "ok"
    /\ last.value = DisplayInfo(2560, 1440, 6)

\* C3: after update_stored_screen_info the cache is the freshly fetched
\* DisplayInfo when the fetch succeeded, and is what it was before the call when
\* the fetch raised (the exception reaches the caller); no other display changes.
C3_RefreshAtomic ==
    Refreshes(last)
        => LET t == last.target
               before == last.displays_before
           IN  /\ last.outcome = "ok"
                    => /\ ReceivedDocument(last)
                       /\ Cardinality(ZeroIds(last.reply.monitors)) = 1
                       /\ displays[t].screen_info = InfoOf(TheZeroId(last.reply.monitors))
               /\ last.outcome # "ok" => displays[t] = before[t]
               /\ (~ReceivedDocument(last)
                     \/ Cardinality(ZeroIds(last.reply.monitors)) # 1) => last.outcome # "ok"
               /\ \A i \in 1..Len(displays) : i # t => displays[i] = before[i]
               /\ Len(displays) = Len(before)

\* C3 witness: a refresh raised on two id-0 monitors and the cache kept the
\* value it had, which a refresh had earlier changed from the constructor's.
C3_Witness ==
    /\ last.op = "update_stored_screen_info" /\ last.outcome = "ValueError"
    /\ displays[last.target].screen_info = last.displays_before[last.target].screen_info
    /\ displays[last.target].screen_info # history[last.target].fetched_at_init

\* The places of the commas of a text, and the text between two places.
CommaPlaces(s) == {i \in 1..Len(s) : s[i] = Comma}

NextComma(s, from) ==
    IF \E i \in CommaPlaces(s) : i >= from
    THEN CHOOSE i \in CommaPlaces(s) : i >= from /\ \A j \in CommaPlaces(s) : j >= from => i <= j
    ELSE Len(s) + 1

FirstField(s) == SubSeq(s, 1, NextComma(s, 1) - 1)
SecondField(s) == SubSeq(s, NextComma(s, 1) + 1, NextComma(s, NextComma(s, 1) + 1) - 1)
AfterFirstComma(s) == SubSeq(s, NextComma(s, 1) + 1, Len(s))

\* C4 as claimed: the text is split at its first comma only, it parses exactly when
\* both sides are integers, and every failure is of one kind (the ValueError
\* that int() raises).
C4_FirstCommaOnly ==
    last.op = "string_to_point"
        => /\ last.outcome = "ok"
                <=> /\ CommaPlaces(inp) # {}
                    /\ IsIntText(FirstField(inp))
                    /\ IsIntText(AfterFirstComma(inp))
           /\ last.outcome # "ok" => last.outcome = "ValueError"

\* C4, amended: string_to_point splits at every comma, trims the fields and parses
\* the first two as integers, ignoring any further field: "12, 34" gives
\* (12, 34), "  -5 ,7" gives (-5, 7) and "1, 2, 3" gives (1, 2). It raises
\* IndexError when the text has no comma and is an integer ("12"), and
\* ValueError when the first field, or else the second, is no integer ("a,b").
C4_FirstTwoFields ==
    last.op = "string_to_point"
        => /\ last.outcome = "ok"
                <=> /\ CommaPlaces(inp) # {}
                    /\ IsIntText(FirstField(inp))
                    /\ IsIntText(SecondField(inp))
           /\ last.outcome = "ok"
                => last.value = <<IntOfText(FirstField(inp)), IntOfText(SecondField(inp))>>
           /\ last.outcome # "ok"
                => last.outcome = IF CommaPlaces(inp) = {} /\ IsIntText(inp)
                                  THEN "IndexError" ELSE "ValueError"
           /\ inp = Text12c34 => last.outcome = "ok" /\ last.value = <<PyInt(12), PyInt(34)>>
           /\ inp = TextNeg5c7 => last.outcome = "ok" /\ last.value = <<PyInt(-5), PyInt(7)>>
           /\ inp = Text1c2c3 => last.outcome = "ok" /\ last.value = <<PyInt(1), PyInt(2)>>
           /\ inp = Text12 => last.outcome = "IndexError"
           /\ inp = TextAcB => last.outcome = "ValueError"

\* C4 witness: "1, 2, 3" has been parsed, to (1, 2).
C4_Witness ==
    /\ last.op = "string_to_point" /\ inp = Text1c2c3
    /\ last.outcome = "ok" /\ last.value = <<PyInt(1), PyInt(2)>>

\* Axis k of the input is a coordinate of one limb: it and its product with
\* the scale are floats.
Narrow(k) == IsSmall(inp.global_coords[k])

\* axis k of the result is a nearest integer to coordinate * scale
Nearest(k) ==
    2 * Abs(ScaleDen * Small(last.value[k])
                - Small(inp.global_coords[k]) * inp.display_info.scale)
        <= ScaleDen

\* the product on axis k lies halfway between two integers
Tie(k) ==
    2 * Abs(ScaleDen * Small(last.value[k])
                - Small(inp.global_coords[k]) * inp.display_info.scale)
        = ScaleDen

Point(x, y) == <<PyInt(x), PyInt(y)>>

\* C5 as claimed: each axis is the nearest integer to coordinate * scale, and
\* (3, 3) at scale 1.5 gives (5, 5).
C5_TieGivesFive ==
    (last.op = "convert_to_physical_coords" /\ Narrow(1) /\ Narrow(2))
        => /\ last.outcome = "ok"
           /\ \A k \in {1, 2} : Nearest(k)
           /\ (inp.global_coords = Point(3, 3) /\ inp.display_info.scale = 6)
                => last.value = Point(5, 5)

\* C5, amended: each axis is, independently, Python's round(coordinate * scale)
\* in float arithmetic. For a coordinate that is a float and has a float
\* product it is the nearest integer to coordinate * scale, a tie going to the
\* even neighbour: (100,100) at 1.0 gives (100,100), (100,100) at 2.0 gives
\* (200,200), and (3,3) at 1.5, where the product is 4.5, gives (4,4). A
\* coordinate of more than 53 bits is rounded to a float first (2^53 + 1 at
\* 1.0 gives 2^53, 2^53 + 3 at 1.5 gives 3 * 2^52 + 6), and the call raises
\* OverflowError when a coordinate is 2^1024 or its product with the scale is
\* (2^1023 at 2.0).
C5_NearestTiesToEven ==
    last.op = "convert_to_physical_coords"
        => /\ (Narrow(1) /\ Narrow(2)) => last.outcome = "ok"
           /\ last.outcome = "ok"
                => \A k \in {1, 2} :
                      Narrow(k) => Nearest(k) /\ (Tie(k) => Small(last.value[k]) % 2 = 0)
           /\ (inp.global_coords = Point(100, 100) /\ inp.display_info.scale = 4)
                => last.value = Point(100, 100)
           /\ (inp.global_coords = Point(100, 100) /\ inp.display_info.scale = 8)
                => last.value = Point(200, 200)
           /\ (inp.global_coords = Point(3, 3) /\ inp.display_info.scale = 6)
                => last.value = Point(4, 4)
           /\ (inp.global_coords = <<Plus(Pow2(MantissaBits), 1), PyInt(0)>>
                    /\ inp.display_info.scale = 4)
                => last.value = <<Pow2(MantissaBits), PyInt(0)>>
           /\ (inp.global_coords = <<Plus(Pow2(MantissaBits), 3), PyInt(0)>>
                    /\ inp.display_info.scale = 6)
                => last.value = <<Plus(IntObject(FALSE, ShiftLeft(<<3>>, MantissaBits - 1)), 6),
                                  PyInt(0)>>
           /\ (\E k \in {1, 2} : inp.global_coords[k] = Pow2(MaxExponent))
                => last.outcome = "OverflowError"
           /\ (inp.global_coords = <<PyInt(0), Pow2(MaxExponent - 1)>>)
                => IF inp.display_info.scale >= 2 * ScaleDen
                   THEN last.outcome = "OverflowError"
                   ELSE last.outcome = "ok"

\* C5 witness: (3, 3) has been converted at scale 1.5, to (4, 4).
C5_Witness ==
    /\ last.op = "convert_to_physical_coords"
    /\ inp.global_coords = Point(3, 3) /\ inp.display_info.scale = 6
    /\ last.value = Point(4, 4)

\* C6 as claimed: the single recv returns at most the command's budget, 512 bytes
\* for /cursorpos and 4096 for j/monitors, of the bytes that have arrived, so a
\* reply is cut only beyond that.
C6_ReceiveBudget ==
    /\ (last.op = "get_cursor_position" /\ last.link = "up")
        => last.received = Min(last.arrived, CursorBufferSize)
    /\ (last.op = "get_screen_info" /\ last.link = "up")
        => last.received = Min(last.arrived, MonitorsBufferSize)

\* C7: construction makes exactly one exchange and is all or nothing: a
\* constructor that raised added no display; every HyprlandInterface that exists
\* holds a whole DisplayInfo that a get_screen_info returned, never an empty one.
C7_ConstructionAllOrNothing ==
    /\ \A i \in 1..Len(displays) :
          IsHyprland(displays[i])
            => /\ displays[i].screen_info \in FetchableInfos
               /\ history[i].fetched_at_init \in FetchableInfos
               /\ ~history[i].refreshed => displays[i].screen_info = history[i].fetched_at_init
    /\ last.op = "__init__"
        => /\ last.exchanges = 1
           /\ last.outcome = "ok"
                => /\ ReceivedDocument(last)
                   /\ Cardinality(ZeroIds(last.reply.monitors)) = 1
                   /\ displays = Append(last.displays_before,
                                        [cls |-> "HyprlandInterface",
                                         screen_info |->
                                             InfoOf(TheZeroId(last.reply.monitors))])
           /\ last.outcome # "ok" => displays = last.displays_before
           /\ (~ReceivedDocument(last)
                 \/ Cardinality(ZeroIds(last.reply.monitors)) # 1) => last.outcome # "ok"

\* C7 witness: a constructor raised beside an existing display (the compositor's
\* socket was not there), and no display was added.
C7_Witness ==
    /\ last.op = "__init__" /\ last.outcome = "FileNotFoundError"
    /\ Len(displays) = 1 /\ displays = last.displays_before

\* C8: maybe_update_screen_info calls the refresh exactly once on a display that
\* is a CachedScreenInfoMixin (HyprlandInterface) and a failure of the refresh
\* reaches the caller; on any other display (PyAutoGuiInterface) it makes no
\* exchange, changes nothing and raises nothing.
C8_MaybeUpdate ==
    last.op = "maybe_update_screen_info"
        => IF IsHyprland(last.displays_before[last.target])
           THEN /\ last.refresh_calls = 1
                /\ last.exchanges = 1
                /\ last.link # "up" => last.outcome # "ok"
                /\ last.outcome = "ok"
                     => displays[last.target].screen_info
                            = InfoOf(TheZeroId(last.reply.monitors))
                /\ last.outcome # "ok" => displays = last.displays_before
           ELSE /\ last.refresh_calls = 0
                /\ last.exchanges = 0
                /\ last.outcome = "ok"
                /\ displays = last.displays_before
                /\ open_sockets = {}

\* C8 witness: maybe_update_screen_info has run on a PyAutoGuiInterface that
\* stands beside a HyprlandInterface.
C8_Witness ==
    /\ last.op = "maybe_update_screen_info"
    /\ ~IsHyprland(displays[last.target])
    /\ \E i \in 1..Len(displays) : IsHyprland(displays[i])
    /\ last.outcome = "ok"

PyAutoGui == [cls |-> "PyAutoGuiInterface"]

\* C9: get_display_interface follows the decision table: Linux with x11, Windows
\* and macOS construct the generic backend; Linux with wayland and a non-empty
\* Hyprland signature runs the Hyprland constructor (whose failure propagates);
\* every other combination raises NotImplementedError and constructs nothing.
C9_SelectorTable ==
    last.op = "get_display_interface"
        => LET generic == \/ last.platform = "linux" /\ last.session = "x11"
                          \/ last.platform \in {"win32", "darwin"}
               hyprland == /\ last.platform = "linux" /\ last.session = "wayland"
                           /\ last.signature # ""
           IN  /\ generic => /\ last.outcome = "ok"
                             /\ last.exchanges = 0
                             /\ displays = Append(last.displays_before, PyAutoGui)
               /\ hyprland => /\ last.exchanges = 1
                              /\ last.outcome # "NotImplementedError"
                              /\ last.outcome = "ok"
                                   => /\ Len(displays) = Len(last.displays_before) + 1
                                      /\ IsHyprland(displays[Len(displays)])
                              /\ last.outcome # "ok" => displays = last.displays_before
               /\ (~generic /\ ~hyprland) => /\ last.outcome = "NotImplementedError"
                                             /\ last.exchanges = 0
                                             /\ displays = last.displays_before

\* C9 witness: Linux, wayland and no Hyprland signature has raised NotImplementedError.
C9_Witness ==
    /\ last.op = "get_display_interface"
    /\ last.platform = "linux" /\ last.session = "wayland" /\ last.signature = ""
    /\ last.outcome = "NotImplementedError"

ExchangeOps ==
    {"__init__", "get_screen_info", "get_cursor_position", "update_stored_screen_info"}

\* C10: every operation that talks to the compositor makes its one exchange on a
\* socket created for it, and that socket is closed when the operation ends,
\* however it ends (return, transport error, decode error, parse error in the
\* caller): no socket is open after any operation, so none is there to reuse.
C10_SocketsClosed ==
    /\ open_sockets = {}
    /\ last.op \in ExchangeOps => last.exchanges = 1 /\ last.socket \notin open_sockets

\* C10 witness: an exchange whose text the caller then failed to parse has ended
\* and no socket is open.
C10_Witness ==
    /\ last.op = "get_cursor_position" /\ last.outcome = "IndexError"
    /\ last.exchanges = 1
    /\ open_sockets = {}

====
